---- MODULE Spec2Model ----
(***************************************************************************)
(* KitCoreWebAR (src/KitCoreWebAR-main.js): the <kitcore-webar> element's  *)
(* mode selection (constructor, initScene), geo-anchored loop              *)
(* (enableAnchors), GPS-only handler (enableGPS), surface-placement        *)
(* controller (enablePlacement) and touch gestures                         *)
(* (setupNativeTouchControls) as state machines, and GeolocationManager's  *)
(* functions as operators.                                                 *)
(*                                                                         *)
(* JavaScript runs every callback to completion on one thread, so each     *)
(* callback (a frame of the animation loop, a geolocation update, a        *)
(* promise reaction, a select event) is one atomic action.                 *)
(*                                                                         *)
(* Units.  Latitudes and longitudes are integers in units of 1e-5 degree,  *)
(* lengths are integers in centimetres, radii are kept in metres as the    *)
(* attributes give them.  Coordinates stay within a few hundred units of   *)
(* the equator, where cos(latitude) differs from 1 by less than 1e-9 and   *)
(* the haversine distance equals the chord length to well below 1 cm.      *)
(***************************************************************************)
EXTENDS Integers, Sequences, FiniteSets, TLC

VARIABLES
    mode,          \* this.mode, read once by the constructor
    positionateEnabled, \* this.positionateEnabled
    hostDistance,  \* the host element's "distance" attribute
    session,       \* "none" until initScene has run, then "active"
    presenting,    \* renderer.xr has the session: the loop's calls carry an XRFrame
    loopState,     \* the animation loop: "none", "running", "stopped" (a callback raised)
    watching,      \* a geolocation watch is installed
    currentUser,   \* this.currentUserLat / this.currentUserLon, or NoFix
    load,          \* per configured element: "idle", "skipped", "loading", "loaded", "failed"
    objects,       \* this.objects: element ids in push order
    anchor,        \* obj.anchor per element: NoAnchor or an anchor handle id
    visible,       \* obj.object.visible
    position,      \* obj.object.position
    quaternion,    \* obj.object.quaternion
    pending,       \* per element: number of createAnchor promises not yet settled
    live,          \* anchors the session holds (created, not deleted): [id, obj] records
    last,          \* history: what the most recent callback did
    placementElem, \* the first <kitcore-webar-object>: "none", "nosrc" or "ok"
    placed,        \* this.placedObject, or NoObject
    modelLoad,     \* the placement model's load: "idle", "loading", "loaded", "failed"
    hitTestSource, \* this.hitTestSource: "undefined", "requested", "set"
    selectInstalled, \* the select listener is registered
    overlayText,   \* this.domOverlayContainer.innerText
    modeAttr,      \* the host element's "mode" attribute as it is now
    children,      \* the <kitcore-webar-object> children of the document
    installed,     \* history: the controllers initScene has installed so far
    rotateEnabled, \* this.rotateEnabled
    scaleEnabled,  \* this.scaleEnabled
    fingers,       \* the touches on the overlay (e.touches.length of the next event)
    controls,      \* setupNativeTouchControls: the listeners' closure variables
    scale,         \* placedObject.scale.x (= y = z), in sixteenths
    rotationY,     \* placedObject.rotation.y, in degrees
    calc,          \* the last computation asked for of a pure method, or NoCalc
    setupDistance, \* history: the host's "distance" attribute when the element was set up
    viewerLoad,    \* viewer mode, per child: "idle", "nosrc", "loading", "loaded", "failed"
    viewerSettled, \* viewer mode, the Promise.all of the loads: "pending", "resolved", "rejected"
    viewerObjects, \* this.viewerObjects: entries [elem, visible] in document order
    modelVisible,  \* viewer mode: model.visible of each child's loaded model
    currentObjectIndex, \* this.currentObjectIndex (counted from 0)
    carousel       \* this.carousel exists: the icons and their click listeners

anchorVars == <<hostDistance, watching, currentUser, load, objects, anchor, visible,
                position, quaternion, pending, live>>
placeVars == <<positionateEnabled, placementElem, placed, modelLoad, hitTestSource, selectInstalled,
               overlayText>>
configVars == <<mode, children, rotateEnabled, scaleEnabled, setupDistance>>
viewerVars == <<viewerLoad, viewerSettled, viewerObjects, modelVisible, currentObjectIndex,
                carousel>>
sideVars == <<modeAttr, calc, viewerVars>>
touchVars == <<fingers, controls, scale, rotationY>>
vars == <<configVars, sideVars, installed, touchVars, session, presenting, loopState, last,
          anchorVars, placeVars>>

----------------------------------------------------------------------------
(* Bounds of the model *)

\* anchors the tracking session can hold or have under creation; a frame that
\* would ask for more is not delivered
MaxAnchors == 3

\* the touches the overlay follows at once
MaxFingers == 3
\* the largest scale, in sixteenths, and the largest rotation either way, in
\* degrees, a gesture may lead to; a move that would pass them is not delivered
MaxScale == 32
MaxTurn == 180

----------------------------------------------------------------------------
(* Values *)

NoAnchor == 0

Vec3(x, y, z) == [x |-> x, y |-> y, z |-> z]
Origin == Vec3(0, 0, 0)

Range(f) == {f[i] : i \in DOMAIN f}

RECURSIVE SumOver(_, _)
SumOver(f, S) == IF S = {} THEN 0
                 ELSE LET x == CHOOSE y \in S : TRUE IN f[x] + SumOver(f, S \ {x})
Sum(f) == SumOver(f, DOMAIN f)

\* orientations: a quaternion the tracking session reports, the rotation by id
\* degrees about the x axis, or the result of Object3D.lookAt from a position
\* towards a target
Quat(id) == [kind |-> "quat", id |-> id, from |-> Origin, to |-> Origin]
Identity == Quat(0)

\* an attribute as getAttribute returns it: null, or a string that is empty,
\* numeric ("15") or not numeric ("abc")
AttrAbsent == [t |-> "absent", n |-> 0]
AttrEmpty == [t |-> "empty", n |-> 0]
AttrText == [t |-> "text", n |-> 0]
AttrNum(n) == [t |-> "num", n |-> n]

\* a JavaScript number: a value or NaN; null where the code stores null
NaN == [t |-> "nan", n |-> 0]
Num(n) == [t |-> "number", n |-> n]
Null == [t |-> "null", n |-> 0]

\* MODES, and the values the host's mode attribute may have: absent, one of the
\* five modes, or another string
ModeAttrs == {"absent", "viewer", "floor", "wall", "gps", "anchors", "other"}
\* this.getAttribute("mode") || MODES.VIEWER
ModeOf(attr) == IF attr = "absent" THEN "viewer" ELSE attr

\* AR_CONFIG
DETECTION_RADIUS == 10
MODEL_HEIGHT == 150
\* 0.5, in sixteenths
MODEL_SCALE == 8

\* the configured <kitcore-webar-object> children
ElemIds == {0, 1, 2, 3, 4}
Elements ==
    [e \in ElemIds |->
        CASE e = 0 -> [lat |-> 10, lon |-> 10, src |-> FALSE, distance |-> AttrAbsent,
                       altitude |-> AttrAbsent, lookatuser |-> FALSE]
          [] e = 1 -> [lat |-> 10, lon |-> 10, src |-> TRUE, distance |-> AttrAbsent,
                       altitude |-> AttrAbsent, lookatuser |-> TRUE]
          [] e = 2 -> [lat |-> 10, lon |-> 22, src |-> TRUE, distance |-> AttrNum(5),
                       altitude |-> AttrNum(200), lookatuser |-> FALSE]
          [] e = 3 -> [lat |-> 0, lon |-> 10, src |-> TRUE, distance |-> AttrAbsent,
                       altitude |-> AttrAbsent, lookatuser |-> FALSE]
          [] e = 4 -> [lat |-> 10, lon |-> 12, src |-> TRUE, distance |-> AttrNum(0),
                       altitude |-> AttrNum(0), lookatuser |-> FALSE]]

\* the fixes the geolocation watch may deliver
Fix(lat, lon) == [known |-> TRUE, lat |-> lat, lon |-> lon]
UserFixes == {Fix(10, 10), Fix(10, 20), Fix(0, 0)}
\* currentUserLat and currentUserLon before the first fix
NoFix == [known |-> FALSE, lat |-> 0, lon |-> 0]
\* this.placedObject before the model has loaded
\* the touch listeners' closure: none registered, or initialTouchDistance (null
\* when ref is FALSE), initialTouchAngle, initialScale and initialRotation
NoControls == [on |-> FALSE, ref |-> FALSE, distance |-> 0, angle |-> 0, scale |-> 0,
               rotation |-> 0]
\* no computation asked for
NoCalc == [done |-> FALSE, a |-> NoFix, b |-> NoFix, ab |-> 0, ba |-> 0, aa |-> 0,
           offset |-> [x |-> 0, z |-> 0], turn |-> 0, vertical |-> FALSE]
NoObject == [loaded |-> FALSE, visible |-> FALSE, isPlaced |-> FALSE,
             position |-> Origin, quaternion |-> Identity]
HostDistances == {AttrNum(15)}
\* the host's distance attribute in GPS-only mode: absent, "", "abc", "0", "15"
GPSHostDistances == {AttrAbsent, AttrEmpty, AttrText, AttrNum(0), AttrNum(15)}
CameraPositions == {Vec3(0, 160, 0), Vec3(100, 160, 0)}
\* what frame.getPose may return for an anchor: null or a pose
NoPose == [ok |-> FALSE, position |-> Origin, orientation |-> Identity]
Pose(p, q) == [ok |-> TRUE, position |-> p, orientation |-> q]
Poses == {Pose(Vec3(0, 150, -100), Quat(1)), Pose(Vec3(5, 150, -100), Quat(2))}
PoseResults == Poses \cup {NoPose}

\* what frame.getHitTestResults may return: no result, or a first result whose
\* getPose gives null or a pose on a vertical (0 degrees) or horizontal (90) surface
NoHit == [found |-> FALSE, pose |-> NoPose]
Hit(pose) == [found |-> TRUE, pose |-> pose]
HitPoses == {Pose(p, q) : p \in {Vec3(0, 0, -100), Vec3(50, 0, -200)},
                          q \in {Quat(0), Quat(90)}}
HitResults == {NoHit, Hit(NoPose)} \cup {Hit(pose) : pose \in HitPoses}

----------------------------------------------------------------------------
(* JavaScript coercions used by the code *)

\* parseFloat of an attribute value
parseFloat(a) == IF a.t = "num" THEN Num(a.n) ELSE NaN

\* truthiness of a number or null, and of an attribute string or null
TruthyNumber(v) == v.t = "number" /\ v.n # 0
TruthyAttr(a) == a.t \in {"num", "text"}

\* v || d for a number v
OrElse(v, d) == IF TruthyNumber(v) THEN v ELSE d

\* a < b, with b a number, or a string converted by ToNumber; NaN compares false.
\* a is in centimetres, b in metres.
LessThan(a, b) == b.t \in {"number", "num"} /\ a < b.n * 100

----------------------------------------------------------------------------
(* GeolocationManager *)

RECURSIVE SqrtBetween(_, _, _)
\* the largest r in lo..hi with r * r <= n, by bisection
SqrtBetween(n, lo, hi) ==
    IF lo >= hi THEN lo
    ELSE LET mid == (lo + hi + 1) \div 2
         IN  IF mid * mid <= n THEN SqrtBetween(n, mid, hi)
             ELSE SqrtBetween(n, lo, mid - 1)
\* floor of the square root (Math.sqrt, to the centimetre)
Sqrt(n) == SqrtBetween(n, 0, 40000)

\* (EARTH_RADIUS * pi / 180 * 1e-5 m)^2 in cm^2: one coordinate unit is 111.3195 cm
UnitCmSquared == 12392
UnitCmTimes100 == 11132

\* calculateDistance with the longitude term weighted by the first latitude alone
calculateDistance_FirstLatitudeOnly(lat1, lon1, lat2, lon2) ==
    LET dLat == lat2 - lat1
        dLon == lon2 - lon1
        w == 100 - (IF lat1 < 0 THEN -lat1 ELSE lat1)
    IN  Sqrt(UnitCmSquared * (dLat * dLat) + (UnitCmSquared * (dLon * dLon) * w) \div 100)

\* the haversine distance, in centimetres
calculateDistance(lat1, lon1, lat2, lon2) ==
    LET dLat == lat2 - lat1
        dLon == lon2 - lon1
    IN  Sqrt(UnitCmSquared * (dLat * dLat + dLon * dLon))

\* integer division rounding towards zero
Quot(a, b) == IF a >= 0 THEN a \div b ELSE -((-a) \div b)

\* convertGPSToMeters measuring from the origin instead of the reference point
convertGPSToMeters_FromOrigin(lat, lon, refLat, refLon) ==
    [x |-> Quot(lon * UnitCmTimes100, 100),
     z |-> -Quot(lat * UnitCmTimes100, 100)]

\* the equirectangular offset {x, z}, in centimetres
convertGPSToMeters(lat, lon, refLat, refLon) ==
    [x |-> Quot((lon - refLon) * UnitCmTimes100, 100),
     z |-> -Quot((lat - refLat) * UnitCmTimes100, 100)]

----------------------------------------------------------------------------
(* Geo-anchored mode: loadObjects, addObject, enableAnchors *)

\* loadObjects: the parsed attributes of element e
ParsedDistance(e) == OrElse(parseFloat(Elements[e].distance), Null)
ParsedAltitude(e) == OrElse(parseFloat(Elements[e].altitude), Num(MODEL_HEIGHT))
\* loadObjects: lat && lon && src
Accepted(e) == Elements[e].lat # 0 /\ Elements[e].lon # 0 /\ Elements[e].src

\* obj.distance || this.getAttribute("distance") || AR_CONFIG.DETECTION_RADIUS
DetectionRadius(e) ==
    IF TruthyNumber(ParsedDistance(e)) THEN ParsedDistance(e)
    ELSE IF TruthyAttr(hostDistance) THEN hostDistance
    ELSE Num(DETECTION_RADIUS)

\* calculateDistance(currentUserLat, currentUserLon, obj.lat, obj.lon), tabulated
\* over the fixes and the elements
Distances ==
    [e \in ElemIds, fix \in UserFixes |->
        calculateDistance(fix.lat, fix.lon, Elements[e].lat, Elements[e].lon)]
DistanceToUser(e) == Distances[e, currentUser]

\* distanceToUser < detectionRadius, for the user at fix
InRangeOf(e, fix) == LessThan(Distances[e, fix], DetectionRadius(e))
InRange(e) == InRangeOf(e, currentUser)

\* { x, altitude, z } with { x, z } = convertGPSToMeters(lat, lon, userLat, userLon)
TransformFrom(e, fix) ==
    LET off == convertGPSToMeters(Elements[e].lat, Elements[e].lon, fix.lat, fix.lon)
    IN  Vec3(off.x, ParsedAltitude(e).n, off.z)

\* the transform { x, y, z } passed to frame.createAnchor
AnchorTransform(e) == TransformFrom(e, currentUser)

\* the part of the state a frame works on, with what the frame did so far
FrameState ==
    [anchor |-> anchor, visible |-> visible, position |-> position,
     quaternion |-> quaternion, pending |-> pending, live |-> live,
     threw |-> FALSE, processed |-> {}, transforms |-> {}, released |-> {},
     kept |-> {}, faced |-> {}]

\* in range, no anchor: frame.createAnchor(transform, referenceSpace); the promise
\* is settled later
RequestAnchor(s, e) ==
    [s EXCEPT !.pending[e] = @ + 1,
              !.transforms = @ \cup {[obj |-> e, at |-> AnchorTransform(e)]}]

\* TrackAnchor with a failed pose resolution hiding the object
TrackAnchor_HidesOnNoPose(s, e, pose) ==
    IF pose.ok
    THEN [s EXCEPT !.position[e] = pose.position,
                   !.quaternion[e] = pose.orientation,
                   !.visible[e] = TRUE]
    ELSE [s EXCEPT !.kept = @ \cup {e}, !.visible[e] = FALSE]

\* in range, anchored: frame.getPose(obj.anchor.anchorSpace, referenceSpace)
TrackAnchor(s, e, pose) ==
    IF pose.ok
    THEN [s EXCEPT !.position[e] = pose.position,
                   !.quaternion[e] = pose.orientation,
                   !.visible[e] = TRUE]
    ELSE [s EXCEPT !.kept = @ \cup {e}]

\* out of range: hide, and release the anchor if there is one; a delete() that
\* throws leaves the callback before obj.anchor = null
ReleaseAnchor(s, e, throws) ==
    LET hidden == [s EXCEPT !.visible[e] = FALSE]
    IN  IF s.anchor[e] = NoAnchor THEN hidden
        ELSE IF throws
        THEN [hidden EXCEPT !.released = @ \cup {e},
                            !.threw = TRUE]
        ELSE [hidden EXCEPT !.released = @ \cup {e},
                            !.live = {a \in @ : a.id # s.anchor[e]},
                            !.anchor[e] = NoAnchor]

\* if (obj.lookatuser && obj.object.visible) obj.object.lookAt(camera.position)
FaceUser(s, e, cam) ==
    IF ~s.threw /\ Elements[e].lookatuser /\ s.visible[e]
    THEN [s EXCEPT !.quaternion[e] =
                       [kind |-> "lookAt", id |-> 0, from |-> s.position[e], to |-> cam],
                   !.faced = @ \cup {e}]
    ELSE s

\* the body of this.objects.forEach for one object
ProcessObject(s, e, cam, poses, throws) ==
    LET t == [s EXCEPT !.processed = @ \cup {e}]
        u == IF InRange(e)
             THEN IF t.anchor[e] = NoAnchor THEN RequestAnchor(t, e)
                  ELSE TrackAnchor(t, e, poses[e])
             ELSE ReleaseAnchor(t, e, e \in throws)
    IN  FaceUser(u, e, cam)

RECURSIVE ForEachObject(_, _, _, _, _)
\* this.objects.forEach from index i on; an exception ends the iteration
ForEachObject(s, i, cam, poses, throws) ==
    IF i > Len(objects) \/ s.threw THEN s
    ELSE ForEachObject(ProcessObject(s, objects[i], cam, poses, throws),
                       i + 1, cam, poses, throws)

\* the history variable before any callback
NoLast ==
    [op |-> "other", threw |-> FALSE, processed |-> {}, transforms |-> {},
     released |-> {}, kept |-> {}, faced |-> {}, hit |-> NoHit, before |-> NoObject,
     fix |-> NoFix, distance |-> 0, angle |-> 0]

\* what the history variable records of a callback; fix stays the fix the latest
\* location callback received
Did(op, s) ==
    [NoLast EXCEPT !.op = op, !.threw = s.threw, !.processed = s.processed,
                   !.transforms = s.transforms, !.released = s.released,
                   !.kept = s.kept, !.faced = s.faced, !.fix = last.fix]
DidOnly(op) == Did(op, FrameState)

\* loadObjects: addObject is started for every child with lat && lon && src
LoadObjects ==
    [e \in ElemIds |-> IF e \notin children THEN load[e]
                       ELSE IF Accepted(e) THEN "loading" ELSE "skipped"]

\* initScene in mode "anchors": loadObjects(), then enableAnchors() subscribes to
\* the location and installs the animation loop
InitSceneAnchors ==
    /\ mode = "anchors"
    /\ session = "none"
    /\ session' = "active"
    /\ load' = LoadObjects
    /\ watching' = TRUE
    /\ loopState' = "running"
    /\ installed' = installed \cup {"anchors"}
    /\ last' = DidOnly("other")
    /\ UNCHANGED <<configVars, sideVars, touchVars, presenting, hostDistance, currentUser, objects, anchor, visible, position,
                   quaternion, pending, live, placeVars>>

\* LoadComplete without object.visible = false (a loaded scene is visible)
LoadComplete_LeavesVisible(e, ok) ==
    /\ load[e] = "loading"
    /\ load' = [load EXCEPT ![e] = IF ok THEN "loaded" ELSE "failed"]
    /\ objects' = IF ok THEN Append(objects, e) ELSE objects
    /\ visible' = IF ok THEN [visible EXCEPT ![e] = TRUE] ELSE visible
    /\ anchor' = IF ok THEN [anchor EXCEPT ![e] = NoAnchor] ELSE anchor
    /\ last' = DidOnly("other")
    /\ UNCHANGED <<configVars, sideVars, installed, touchVars, presenting, session, loopState, hostDistance, watching, currentUser,
                   position, quaternion, pending, live, placeVars>>

\* LoadComplete pushing the object whether or not its model loaded
LoadComplete_PushesFailed(e, ok) ==
    /\ load[e] = "loading"
    /\ load' = [load EXCEPT ![e] = IF ok THEN "loaded" ELSE "failed"]
    /\ objects' = Append(objects, e)
    /\ visible' = [visible EXCEPT ![e] = FALSE]
    /\ anchor' = [anchor EXCEPT ![e] = NoAnchor]
    /\ last' = DidOnly("other")
    /\ UNCHANGED <<configVars, sideVars, installed, touchVars, presenting, session, loopState,
                   hostDistance, watching, currentUser, position, quaternion, pending, live,
                   placeVars>>

\* addObject after the await: the model loaded (push an invisible, unanchored
\* object) or the load failed (logged)
LoadComplete(e, ok) ==
    /\ load[e] = "loading"
    /\ load' = [load EXCEPT ![e] = IF ok THEN "loaded" ELSE "failed"]
    /\ objects' = IF ok THEN Append(objects, e) ELSE objects
    /\ visible' = IF ok THEN [visible EXCEPT ![e] = FALSE] ELSE visible
    /\ anchor' = IF ok THEN [anchor EXCEPT ![e] = NoAnchor] ELSE anchor
    /\ last' = DidOnly("other")
    /\ UNCHANGED <<configVars, sideVars, installed, touchVars, presenting, session, loopState, hostDistance, watching, currentUser,
                   position, quaternion, pending, live, placeVars>>

\* LocationUpdate moving the anchored objects to their offset from the new fix
LocationUpdate_Rehomes(fix) ==
    /\ mode = "anchors"
    /\ watching
    /\ currentUser' = fix
    /\ position' = [e \in ElemIds |-> IF anchor[e] # NoAnchor THEN TransformFrom(e, fix)
                                      ELSE position[e]]
    /\ last' = [DidOnly("location") EXCEPT !.fix = fix]
    /\ UNCHANGED <<configVars, sideVars, installed, touchVars, presenting, session, loopState,
                   hostDistance, watching, load, objects, anchor, visible, quaternion,
                   pending, live, placeVars>>

\* watchPosition success callback of enableAnchors
LocationUpdate(fix) ==
    /\ mode = "anchors"
    /\ watching
    /\ currentUser' = fix
    /\ last' = [DidOnly("location") EXCEPT !.fix = fix]
    /\ UNCHANGED <<configVars, sideVars, installed, touchVars, presenting, session, loopState, hostDistance, watching, load, objects,
                   anchor, visible, position, quaternion, pending, live, placeVars>>

\* LocationError forgetting the stored location
LocationError_ForgetsLocation ==
    /\ watching
    /\ currentUser' = NoFix
    /\ last' = DidOnly("locationError")
    /\ UNCHANGED <<configVars, sideVars, installed, touchVars, presenting, session, loopState,
                   hostDistance, watching, load, objects, anchor, visible, position, quaternion,
                   pending, live, placeVars>>

\* watchPosition error callback: console.error only
LocationError ==
    /\ watching
    /\ last' = DidOnly("locationError")
    /\ UNCHANGED <<configVars, sideVars, installed, touchVars, presenting, session, loopState, anchorVars, placeVars>>

\* the objects for which a frame reads an input: a pose for an anchored object in
\* range, a delete() outcome for an anchored object out of range
ReadsPose == {e \in Range(objects) : presenting /\ currentUser.known /\ anchor[e] # NoAnchor /\ InRange(e)}
ReadsDelete == {e \in Range(objects) : presenting /\ currentUser.known /\ anchor[e] # NoAnchor /\ ~InRange(e)}

\* one call of the animation loop callback of enableAnchors; it carries an XRFrame
\* once the renderer presents the session.  cam: the camera position of this
\* frame; poses: what frame.getPose returns for the objects it is asked about;
\* throws: the objects whose anchor.delete() raises.
AnchorsFrame(cam, poses, throws) ==
    /\ mode = "anchors"
    /\ loopState = "running"
    /\ LET hasFrame == presenting
           s == IF hasFrame /\ currentUser.known
                THEN ForEachObject(FrameState, 1, cam, poses, throws)
                ELSE FrameState
       IN  /\ s.transforms # {} => Sum(s.pending) + Cardinality(s.live) <= MaxAnchors
           /\ anchor' = s.anchor
           /\ visible' = s.visible
           /\ position' = s.position
           /\ quaternion' = s.quaternion
           /\ pending' = s.pending
           /\ live' = s.live
           /\ loopState' = IF s.threw THEN "stopped" ELSE "running"
           /\ last' = Did(IF hasFrame THEN "frame" ELSE "render", s)
    /\ UNCHANGED <<configVars, sideVars, installed, touchVars, presenting, session, hostDistance, watching, currentUser, load, objects,
                   placeVars>>

\* the handle of the next anchor the session creates: a value no live anchor has
LiveIds == {a.id : a \in live}
NewAnchor == CHOOSE a \in 1..(MaxAnchors + 1) :
                 a \notin LiveIds /\ \A b \in 1..(a - 1) : b \in LiveIds

\* a createAnchor promise of e settles: .then stores the new anchor and shows the
\* object, .catch logs; a session that has ended creates no anchor
SettleCreate(e, ok) ==
    /\ pending[e] > 0
    /\ ok => session = "active"
    /\ pending' = [pending EXCEPT ![e] = @ - 1]
    /\ IF ok
       THEN /\ anchor' = [anchor EXCEPT ![e] = NewAnchor]
            /\ visible' = [visible EXCEPT ![e] = TRUE]
            /\ live' = live \cup {[id |-> NewAnchor, obj |-> e]}
       ELSE UNCHANGED <<anchor, visible, live>>
    /\ last' = DidOnly("other")
    /\ UNCHANGED <<configVars, sideVars, installed, touchVars, presenting, session, loopState, hostDistance, watching, currentUser, load,
                   objects, position, quaternion, placeVars>>

\* renderer.xr.setSession(this.session) at the end of initScene takes effect: from
\* now on the animation loop is driven by the session's frames
StartPresenting ==
    /\ session = "active"
    /\ ~presenting
    /\ presenting' = TRUE
    /\ last' = DidOnly("other")
    /\ UNCHANGED <<configVars, sideVars, installed, touchVars, session, loopState, anchorVars, placeVars>>

----------------------------------------------------------------------------
(* GPS-only mode: loadObjects, enableGPS and the render loop of initScene *)

\* InitSceneGPS choosing by the mode attribute as it is now
InitSceneGPS_ReadsAttribute ==
    /\ ModeOf(modeAttr) = "gps"
    /\ session = "none"
    /\ session' = "active"
    /\ load' = LoadObjects
    /\ watching' = TRUE
    /\ loopState' = "running"
    /\ installed' = installed \cup {"gps"}
    /\ last' = DidOnly("other")
    /\ UNCHANGED <<configVars, sideVars, touchVars, presenting, hostDistance, currentUser,
                   objects, anchor, visible, position, quaternion, pending, live, placeVars>>

\* initScene in mode "gps": loadObjects(), enableGPS() subscribes to the location,
\* and after setSession the render loop is installed
InitSceneGPS ==
    /\ mode = "gps"
    /\ session = "none"
    /\ session' = "active"
    /\ load' = LoadObjects
    /\ watching' = TRUE
    /\ loopState' = "running"
    /\ installed' = installed \cup {"gps"}
    /\ last' = DidOnly("other")
    /\ UNCHANGED <<configVars, sideVars, touchVars, presenting, hostDistance, currentUser,
                   objects, anchor, visible, position, quaternion, pending, live, placeVars>>

\* watchPosition success callback of enableGPS: every object is shown at its
\* offset from the fix or hidden; the fix is not stored
GPSLocationUpdate(fix) ==
    /\ mode = "gps"
    /\ watching
    /\ visible' = [e \in ElemIds |-> IF e \in Range(objects) THEN InRangeOf(e, fix)
                                     ELSE visible[e]]
    /\ position' = [e \in ElemIds |-> IF e \in Range(objects) /\ InRangeOf(e, fix)
                                      THEN TransformFrom(e, fix) ELSE position[e]]
    /\ last' = [DidOnly("location") EXCEPT !.fix = fix, !.processed = Range(objects)]
    /\ UNCHANGED <<configVars, sideVars, installed, touchVars, presenting, session, loopState,
                   hostDistance, watching, currentUser, load, objects, anchor, quaternion,
                   pending, live, placeVars>>

\* one call of the render loop of initScene: lookAt for the visible lookatuser
\* objects, then render
GPSFrame(cam) ==
    /\ mode = "gps"
    /\ loopState = "running"
    /\ quaternion' = [e \in ElemIds |->
                          IF e \in Range(objects) /\ Elements[e].lookatuser /\ visible[e]
                          THEN [kind |-> "lookAt", id |-> 0, from |-> position[e], to |-> cam]
                          ELSE quaternion[e]]
    /\ last' = [DidOnly("render") EXCEPT
                    !.processed = Range(objects),
                    !.faced = {e \in Range(objects) : Elements[e].lookatuser /\ visible[e]}]
    /\ UNCHANGED <<configVars, sideVars, installed, touchVars, presenting, session, loopState,
                   hostDistance, watching, currentUser, load, objects, anchor, visible,
                   position, pending, live, placeVars>>

\* the page sets the host element's distance attribute while the session runs;
\* the element has no attributeChangedCallback, the attribute is what
\* this.getAttribute("distance") returns from now on
SetHostDistance(d) ==
    /\ session = "active"
    /\ d # hostDistance
    /\ hostDistance' = d
    /\ last' = DidOnly("other")
    /\ UNCHANGED <<configVars, sideVars, installed, touchVars, session, presenting, loopState,
                   watching, currentUser, load, objects, anchor, visible, position,
                   quaternion, pending, live, placeVars>>

\* the XR session ends (the user leaves AR, or the user agent ends it): the
\* renderer stops presenting and goes on calling the loop callback without a
\* frame, and the session's anchors are gone.  The element registers no "end"
\* listener and keeps no watch id, so nothing of its own state changes.
SessionEnd ==
    /\ session = "active"
    /\ session' = "ended"
    /\ presenting' = FALSE
    /\ live' = {}
    /\ last' = DidOnly("other")
    /\ UNCHANGED <<configVars, sideVars, installed, touchVars, loopState, hostDistance, watching,
                   currentUser, load, objects, anchor, visible, position, quaternion, pending,
                   placeVars>>

----------------------------------------------------------------------------
(* Surface placement: enablePlacement, isVerticalSurface *)

SearchText == IF mode = "wall" THEN "Move to find a vertical surface"
              ELSE "Move around to detect a surface"
SurfaceText == "Surface detected, tap to place"
WallText == "Wall detected, tap to place"

Abs(n) == IF n < 0 THEN -n ELSE n

\* the angle, in degrees, between the rotated normal (0, 0, 1) and (0, 1, 0): for
\* the rotation by d degrees about the x axis the normal is (0, -sin d, cos d),
\* and angleTo gives acos(-sin d) in 0..180
AngleToUp(q) ==
    LET d == ((q.id + 180) % 360) - 180
    IN  IF d > 90 THEN 270 - d
        ELSE IF d < -90 THEN -90 - d
        ELSE 90 + d

\* isVerticalSurface with the threshold included
isVerticalSurface_Inclusive(q) == Abs(AngleToUp(q) - 90) <= 45

\* isVerticalSurface: |angle - pi/2| < pi/4
isVerticalSurface(q) == Abs(AngleToUp(q) - 90) < 45

\* the hit orientations isVerticalSurface is asked about: rotations about the x
\* axis by whole degrees
MaxTilt == 180
SurfaceAngles == (-MaxTilt)..MaxTilt

\* isVerticalSurface of the orientation asked for
Classify ==
    /\ ~calc.done
    /\ calc' = [calc EXCEPT !.done = TRUE,
                            !.vertical = isVerticalSurface(Quat(calc.turn))]
    /\ UNCHANGED <<configVars, modeAttr, viewerVars, installed, touchVars, session, presenting,
                   loopState, last, anchorVars, placeVars>>

\* PlacementConfigured without the test of the src attribute
PlacementConfigured_AnyElement == placementElem # "none"

\* enablePlacement goes on past its two early returns: the first
\* <kitcore-webar-object> exists and has a src
PlacementConfigured == placementElem = "ok"

\* initScene in mode "floor" or "wall": the status text, then enablePlacement, which
\* returns early without the element or its src, and otherwise starts the model
\* load and the hit-test source request and registers the select listener
InitScenePlacement ==
    /\ mode \in {"floor", "wall"}
    /\ session = "none"
    /\ session' = "active"
    /\ overlayText' = SearchText
    /\ IF PlacementConfigured
       THEN /\ modelLoad' = "loading"
            /\ hitTestSource' = "requested"
            /\ selectInstalled' = TRUE
            /\ installed' = installed \cup {"placement"}
       ELSE UNCHANGED <<modelLoad, hitTestSource, selectInstalled, installed>>
    /\ last' = DidOnly("other")
    /\ UNCHANGED <<configVars, sideVars, touchVars, presenting, loopState, anchorVars, positionateEnabled, placementElem, placed>>

\* loadModel(modelSrc) settles: .then stores the invisible, unplaced object, which
\* the loader has scaled to MODEL_SCALE; .catch logs
PlacementModelSettled(ok) ==
    /\ modelLoad = "loading"
    /\ modelLoad' = IF ok THEN "loaded" ELSE "failed"
    /\ placed' = IF ok THEN [loaded |-> TRUE, visible |-> FALSE, isPlaced |-> FALSE,
                             position |-> Origin, quaternion |-> Identity]
                 ELSE placed
    /\ scale' = IF ok THEN MODEL_SCALE ELSE scale
    /\ last' = DidOnly("other")
    /\ UNCHANGED <<configVars, sideVars, installed, fingers, controls, rotationY, presenting, session, loopState, anchorVars, positionateEnabled,
                   placementElem, hitTestSource, selectInstalled, overlayText>>

\* requestHitTestSource settles: .then stores the source and installs the
\* animation loop; a rejection has no handler
HitTestSourceSettled(ok) ==
    /\ hitTestSource = "requested"
    /\ hitTestSource' = IF ok THEN "set" ELSE "undefined"
    /\ loopState' = IF ok THEN "running" ELSE loopState
    /\ installed' = IF ok THEN installed \cup {"placement"} ELSE installed
    /\ last' = DidOnly("other")
    /\ UNCHANGED <<configVars, sideVars, touchVars, presenting, session, anchorVars, positionateEnabled, placementElem, placed,
                   modelLoad, selectInstalled, overlayText>>

\* whether the loop callback raises a TypeError on hit: reading .transform of a
\* null pose (wall mode), or .visible of the undefined this.placedObject
PlacementFrameThrows(hit) ==
    \/ hit.found /\ mode = "wall" /\ ~hit.pose.ok
    \/ ~placed.loaded

\* PlacementFrameText without the tests of placedObject.visible
PlacementFrameText_AlsoWhenPlaced(hit) ==
    IF ~hit.found THEN SearchText
    ELSE IF mode = "wall" /\ isVerticalSurface(hit.pose.orientation) THEN WallText
    ELSE SurfaceText

\* the status text the loop callback publishes on hit
PlacementFrameText(hit) ==
    IF placed.visible THEN overlayText
    ELSE IF ~hit.found THEN SearchText
    ELSE IF mode = "wall" /\ isVerticalSurface(hit.pose.orientation) THEN WallText
    ELSE SurfaceText

\* one call of the animation loop callback of enablePlacement
PlacementFrame(hit) ==
    /\ mode \in {"floor", "wall"}
    /\ loopState = "running"
    /\ ~presenting => hit = NoHit
    /\ LET hasFrame == presenting
           works == hasFrame /\ hitTestSource = "set"
           throws == works /\ PlacementFrameThrows(hit)
       IN  /\ overlayText' = IF works /\ ~throws THEN PlacementFrameText(hit)
                             ELSE overlayText
           /\ loopState' = IF throws THEN "stopped" ELSE "running"
           /\ last' = [DidOnly(IF hasFrame THEN "frame" ELSE "render")
                           EXCEPT !.threw = throws, !.hit = hit, !.before = placed]
    /\ UNCHANGED <<configVars, sideVars, installed, touchVars, presenting, session, anchorVars, positionateEnabled, placementElem, placed,
                   modelLoad, hitTestSource, selectInstalled>>

\* Confirm with the position written by the first placement only
Confirm_LocksAfterFirst(obj, pose) ==
    [obj EXCEPT !.quaternion = IF mode = "wall" THEN pose.orientation ELSE @,
                !.position = IF ~obj.isPlaced THEN pose.position ELSE @,
                !.isPlaced = TRUE,
                !.visible = TRUE]

\* the object after a select whose first hit-test result has the pose `pose`
Confirm(obj, pose) ==
    [obj EXCEPT !.quaternion = IF mode = "wall" THEN pose.orientation ELSE @,
                !.position = IF ~obj.isPlaced \/ positionateEnabled
                             THEN pose.position ELSE @,
                !.isPlaced = IF ~obj.isPlaced \/ positionateEnabled THEN TRUE ELSE @,
                !.visible = TRUE]

\* setupNativeTouchControls(this.placedObject, ...): a set of touch listeners with
\* fresh closure variables.  Every confirm registers one more set; all sets see
\* the same events, so a later set either holds the same samples as the first
\* or, registered in the middle of a gesture, none: what the sets do together is
\* what the first one does, and controls is the closure of the first.
SetupTouchControls ==
    IF controls.on THEN controls
    ELSE [on |-> TRUE, ref |-> FALSE, distance |-> 0, angle |-> 0, scale |-> scale,
          rotation |-> rotationY]

\* Select copying the pose without the test `if (pose)`
Select_IgnoresPose(hit) ==
    /\ selectInstalled
    /\ presenting
    /\ hitTestSource # "set" => hit = NoHit
    /\ LET acts == hitTestSource = "set" /\ hit.found /\ placed.loaded
           after == IF acts THEN Confirm(placed, hit.pose) ELSE placed
       IN  /\ placed' = after
           /\ overlayText' = IF acts /\ after.visible THEN "" ELSE overlayText
           /\ controls' = IF acts THEN SetupTouchControls ELSE controls
           /\ rotationY' = IF acts /\ mode = "wall" THEN 0 ELSE rotationY
    /\ last' = [DidOnly("select") EXCEPT !.hit = hit, !.before = placed]
    /\ UNCHANGED <<configVars, sideVars, installed, fingers, scale, presenting, session,
                   loopState, anchorVars, positionateEnabled, placementElem, modelLoad,
                   hitTestSource, selectInstalled>>

\* the session's select listener; the session delivers input events once it runs.
\* placed.quaternion is the orientation the last confirm copied (all of the
\* hit-test orientations turn about the x axis, so copying one leaves the y
\* rotation 0); rotationY is the y rotation the gestures give the object.
Select(hit) ==
    /\ selectInstalled
    /\ presenting
    /\ hitTestSource # "set" => hit = NoHit
    /\ LET acts == hitTestSource = "set" /\ hit.found /\ placed.loaded
           after == IF acts /\ hit.pose.ok THEN Confirm(placed, hit.pose) ELSE placed
       IN  /\ placed' = after
           /\ overlayText' = IF acts /\ after.visible THEN "" ELSE overlayText
           /\ controls' = IF acts /\ hit.pose.ok THEN SetupTouchControls ELSE controls
           /\ rotationY' = IF acts /\ hit.pose.ok /\ mode = "wall" THEN 0 ELSE rotationY
    /\ last' = [DidOnly("select") EXCEPT !.hit = hit, !.before = placed]
    /\ UNCHANGED <<configVars, sideVars, installed, fingers, scale, presenting, session, loopState, anchorVars, positionateEnabled,
                   placementElem, modelLoad, hitTestSource, selectInstalled>>

----------------------------------------------------------------------------
(* Touch gestures: setupNativeTouchControls *)

\* what getDistance and getAngle give for the first two touches of an event: a
\* distance in pixels (two touches are never at one point) and an angle in degrees
TouchDistances == {100, 200}
TouchAngles == {0, 90}
\* the first two touches of an event with n touches
TouchInputs(n) ==
    IF n < 2 THEN {[distance |-> 0, angle |-> 0]}
    ELSE {[distance |-> d, angle |-> a] : d \in TouchDistances, a \in TouchAngles}

\* the hit-test outcomes of the taps between the gestures
TapResults == {NoHit, Hit(NoPose), Hit(Pose(Vec3(0, 0, -100), Quat(0)))}

\* Scaled with the ratio upside down
Scaled_Inverted(base, ref, cur) == (base * ref) \div cur
\* initialScale * (currentDistance / initialTouchDistance)
Scaled(base, ref, cur) == (base * cur) \div ref

\* Rotated without the reference angle
Rotated_FromZero(base, ref, cur) == base - cur
\* initialRotation - (currentAngle - initialTouchAngle)
Rotated(base, ref, cur) == base - (cur - ref)

\* touchstart with n touches on the overlay: with exactly two, the listeners
\* sample the distance, the angle, the scale and the rotation
TouchStart(n, in) ==
    /\ session = "active"
    /\ n > fingers /\ n <= MaxFingers
    /\ fingers' = n
    /\ controls' = IF controls.on /\ n = 2
                   THEN [on |-> TRUE, ref |-> TRUE, distance |-> in.distance,
                         angle |-> in.angle, scale |-> scale, rotation |-> rotationY]
                   ELSE controls
    /\ last' = [DidOnly("touchstart") EXCEPT !.distance = in.distance, !.angle = in.angle]
    /\ UNCHANGED <<configVars, sideVars, installed, scale, rotationY, session, presenting,
                   loopState, anchorVars, placeVars>>

\* touchmove: with exactly two touches and samples taken, the scale and the
\* rotation follow the distance and the angle, each if enabled
TouchMove(in) ==
    /\ fingers >= 1
    /\ LET sampled == fingers = 2 /\ controls.on /\ controls.ref
           scales == sampled /\ scaleEnabled
           rotates == sampled /\ rotateEnabled
           newScale == IF scales THEN Scaled(controls.scale, controls.distance, in.distance)
                       ELSE scale
           newRotation == IF rotates THEN Rotated(controls.rotation, controls.angle, in.angle)
                          ELSE rotationY
       IN  /\ scales => /\ (controls.scale * in.distance) % controls.distance = 0
                        /\ newScale \in 1..MaxScale
           /\ newRotation \in (-MaxTurn)..MaxTurn
           /\ scale' = newScale
           /\ rotationY' = newRotation
    /\ last' = [DidOnly("touchmove") EXCEPT !.distance = in.distance, !.angle = in.angle]
    /\ UNCHANGED <<configVars, sideVars, installed, fingers, controls, session, presenting,
                   loopState, anchorVars, placeVars>>

\* TouchEnd keeping the reference distance and angle
TouchEnd_KeepsReference(n) ==
    /\ n >= 0 /\ n < fingers
    /\ fingers' = n
    /\ last' = DidOnly("touchend")
    /\ UNCHANGED <<configVars, sideVars, installed, controls, scale, rotationY, session,
                   presenting, loopState, anchorVars, placeVars>>

\* touchend with n touches left: below two, the listeners forget the reference
\* distance and angle
TouchEnd(n) ==
    /\ n >= 0 /\ n < fingers
    /\ fingers' = n
    /\ controls' = IF controls.on /\ n < 2
                   THEN [controls EXCEPT !.ref = FALSE, !.distance = 0, !.angle = 0]
                   ELSE controls
    /\ last' = DidOnly("touchend")
    /\ UNCHANGED <<configVars, sideVars, installed, scale, rotationY, session, presenting,
                   loopState, anchorVars, placeVars>>

----------------------------------------------------------------------------
(* GeolocationManager called on a pair of points *)

\* the coordinates of the points, in units of 1e-5 degree
GeoCoords == {-10, 0, 10, 22}
GeoPoints == {Fix(lat, lon) : lat \in GeoCoords, lon \in GeoCoords}

\* calculateDistance in both directions and on a point with itself, and
\* convertGPSToMeters of a point against itself
Measure ==
    /\ ~calc.done
    /\ LET a == calc.a
           b == calc.b
       IN  calc' = [calc EXCEPT
                        !.done = TRUE,
                        !.ab = calculateDistance(a.lat, a.lon, b.lat, b.lon),
                        !.ba = calculateDistance(b.lat, b.lon, a.lat, a.lon),
                        !.aa = calculateDistance(a.lat, a.lon, a.lat, a.lon),
                        !.offset = convertGPSToMeters(a.lat, a.lon, a.lat, a.lon)]
    /\ UNCHANGED <<configVars, modeAttr, viewerVars, installed, touchVars, session, presenting,
                   loopState, last, anchorVars, placeVars>>

----------------------------------------------------------------------------
(* The mode: constructor, the AR button, initScene *)

\* the page sets the host's mode attribute; the element observes no attribute
SetModeAttribute(attr) ==
    /\ modeAttr' = attr
    /\ last' = DidOnly("other")
    /\ UNCHANGED <<configVars, calc, viewerVars, installed, touchVars, session, presenting,
                   loopState, anchorVars, placeVars>>

\* the children of e's document that have a src, in document order (the order of
\* their ids)
RECURSIVE InOrder(_)
InOrder(S) ==
    IF S = {} THEN <<>>
    ELSE LET m == CHOOSE x \in S : \A y \in S : x <= y
         IN  <<m>> \o InOrder(S \ {m})
WithSrc == {e \in children : Elements[e].src}

\* initViewerMode, run by the constructor in viewer mode: a load is started for
\* every child with a src, a child without one gives null
ViewerLoads ==
    [e \in ElemIds |-> IF mode # "viewer" \/ e \notin children THEN "idle"
                       ELSE IF Elements[e].src THEN "loading" ELSE "nosrc"]

\* the handler of Promise.all: the entries of the children with a src, the first
\* one visible
ViewerEntries ==
    [i \in 1..Cardinality(WithSrc) |-> [elem |-> InOrder(WithSrc)[i], visible |-> i = 1]]

\* loadModel of child e settles in viewer mode.  A loaded model is made
\* invisible; when it is the last one and no load has failed, Promise.all
\* resolves: viewerObjects is filled, its first model shown, currentObjectIndex
\* set to 0 and the carousel created for more than one entry.  The first failed
\* load rejects Promise.all, which is logged.
ViewerLoadSettled(e, ok) ==
    /\ mode = "viewer"
    /\ viewerLoad[e] = "loading"
    /\ viewerLoad' = [viewerLoad EXCEPT ![e] = IF ok THEN "loaded" ELSE "failed"]
    /\ LET all == ok /\ viewerSettled = "pending"
                     /\ \A o \in WithSrc \ {e} : viewerLoad[o] = "loaded"
       IN  IF all
           THEN /\ viewerSettled' = "resolved"
                /\ viewerObjects' = ViewerEntries
                /\ modelVisible' = [o \in ElemIds |-> o = ViewerEntries[1].elem]
                /\ currentObjectIndex' = 0
                /\ carousel' = (Len(ViewerEntries) > 1)
           ELSE /\ viewerSettled' = IF ~ok /\ viewerSettled = "pending" THEN "rejected"
                                    ELSE viewerSettled
                /\ modelVisible' = [modelVisible EXCEPT ![e] = FALSE]
                /\ UNCHANGED <<viewerObjects, currentObjectIndex, carousel>>
    /\ last' = DidOnly("other")
    /\ UNCHANGED <<configVars, modeAttr, calc, installed, touchVars, session, presenting,
                   loopState, anchorVars, placeVars>>

\* IconClick leaving the other models as they are
IconClick_KeepsOthers(i) ==
    /\ carousel
    /\ i \in 1..Len(viewerObjects)
    /\ viewerObjects' = [viewerObjects EXCEPT ![i].visible = TRUE]
    /\ modelVisible' = [modelVisible EXCEPT ![viewerObjects[i].elem] = TRUE]
    /\ currentObjectIndex' = i - 1
    /\ last' = DidOnly("click")
    /\ UNCHANGED <<configVars, modeAttr, calc, viewerLoad, viewerSettled, carousel, installed,
                   touchVars, session, presenting, loopState, anchorVars, placeVars>>

\* the click listener of the i-th carousel icon: every model and entry is hidden,
\* then this one is shown and its index stored
IconClick(i) ==
    /\ carousel
    /\ i \in 1..Len(viewerObjects)
    /\ viewerObjects' = [j \in 1..Len(viewerObjects) |->
                             [viewerObjects[j] EXCEPT !.visible = (j = i)]]
    /\ modelVisible' = [o \in ElemIds |->
                            IF o = viewerObjects[i].elem THEN TRUE
                            ELSE IF \E j \in 1..Len(viewerObjects) : viewerObjects[j].elem = o
                            THEN FALSE
                            ELSE modelVisible[o]]
    /\ currentObjectIndex' = i - 1
    /\ last' = DidOnly("click")
    /\ UNCHANGED <<configVars, modeAttr, calc, viewerLoad, viewerSettled, carousel, installed,
                   touchVars, session, presenting, loopState, anchorVars, placeVars>>

\* the AR button in viewer mode: openSceneViewer, no session
ViewerButton ==
    /\ mode = "viewer"
    /\ last' = DidOnly("other")
    /\ UNCHANGED <<configVars, sideVars, installed, touchVars, session, presenting, loopState,
                   anchorVars, placeVars>>

\* initScene with a mode that is none of the five: the scene is created and the
\* session handed to the renderer, no controller is enabled
InitSceneOther ==
    /\ mode \notin {"viewer", "floor", "wall", "gps", "anchors"}
    /\ session = "none"
    /\ session' = "active"
    /\ last' = DidOnly("other")
    /\ UNCHANGED <<configVars, sideVars, installed, touchVars, presenting, loopState,
                   anchorVars, placeVars>>

----------------------------------------------------------------------------
(* Specifications *)

\* the element after construction, whatever its mode
InitCommon ==
    /\ session = "none"
    /\ presenting = FALSE
    /\ loopState = "none"
    /\ watching = FALSE
    /\ currentUser = NoFix
    /\ load = [e \in ElemIds |-> "idle"]
    /\ objects = <<>>
    /\ anchor = [e \in ElemIds |-> NoAnchor]
    /\ visible = [e \in ElemIds |-> FALSE]
    /\ position = [e \in ElemIds |-> Origin]
    /\ quaternion = [e \in ElemIds |-> Identity]
    /\ pending = [e \in ElemIds |-> 0]
    /\ live = {}
    /\ last = NoLast
    /\ setupDistance = hostDistance
    /\ placed = NoObject
    /\ modelLoad = "idle"
    /\ hitTestSource = "undefined"
    /\ selectInstalled = FALSE
    /\ overlayText = ""
    /\ modeAttr \in ModeAttrs
    /\ mode = ModeOf(modeAttr)
    /\ installed = {}
    /\ fingers = 0
    /\ controls = NoControls
    /\ scale = 0
    /\ rotationY = 0
    /\ viewerLoad = ViewerLoads
    /\ viewerSettled = "pending"
    /\ viewerObjects = <<>>
    /\ modelVisible = [e \in ElemIds |-> FALSE]
    /\ currentObjectIndex = 0
    /\ carousel = FALSE

InitAnchors ==
    /\ mode = "anchors"
    /\ children = {1, 2, 3}
    /\ rotateEnabled = TRUE
    /\ scaleEnabled = TRUE
    /\ placementElem = "ok"
    /\ positionateEnabled = TRUE
    /\ hostDistance \in HostDistances
    /\ calc = NoCalc
    /\ InitCommon

NextAnchors ==
    \/ InitSceneAnchors
    \/ \E e \in ElemIds, ok \in BOOLEAN : LoadComplete(e, ok)
    \/ \E fix \in UserFixes : LocationUpdate(fix)
    \/ StartPresenting
    \/ \E cam \in CameraPositions, poses \in [ReadsPose -> PoseResults],
          throws \in SUBSET ReadsDelete :
            AnchorsFrame(cam, poses, throws)
    \/ \E e \in ElemIds, ok \in BOOLEAN : SettleCreate(e, ok)

SpecAnchors == InitAnchors /\ [][NextAnchors]_vars

\* geo-anchored mode over a document of one object (the first or the fourth), with
\* the location errors and the end of the session
InitSession ==
    /\ mode = "anchors"
    /\ children \in {{1}, {4}}
    /\ rotateEnabled = TRUE
    /\ scaleEnabled = TRUE
    /\ placementElem = "ok"
    /\ positionateEnabled = TRUE
    /\ hostDistance \in HostDistances
    /\ calc = NoCalc
    /\ InitCommon

NextSession ==
    \/ NextAnchors
    \/ LocationError
    \/ SessionEnd

SpecSession == InitSession /\ [][NextSession]_vars

\* geo-anchored mode over a document of one object under fair scheduling: the
\* renderer goes on calling the animation loop while it runs, initScene and
\* setSession complete, every load and every createAnchor promise settles, and a
\* creation that is requested again and again succeeds at some time
InitLive ==
    /\ mode = "anchors"
    /\ children = {1}
    /\ rotateEnabled = TRUE
    /\ scaleEnabled = TRUE
    /\ placementElem = "ok"
    /\ positionateEnabled = TRUE
    /\ hostDistance \in HostDistances
    /\ calc = NoCalc
    /\ InitCommon

Frames ==
    \E cam \in CameraPositions, poses \in [ReadsPose -> PoseResults],
       throws \in SUBSET ReadsDelete :
        AnchorsFrame(cam, poses, throws)

FairLive ==
    /\ WF_vars(InitSceneAnchors)
    /\ WF_vars(StartPresenting)
    /\ WF_vars(Frames)
    /\ \A e \in ElemIds :
        /\ WF_vars(\E ok \in BOOLEAN : LoadComplete(e, ok))
        /\ WF_vars(\E ok \in BOOLEAN : SettleCreate(e, ok))
        /\ SF_vars(SettleCreate(e, TRUE))

SpecLive == InitLive /\ [][NextAnchors]_vars /\ FairLive

\* GPS-only mode over a document of four objects
InitGPS ==
    /\ mode = "gps"
    /\ children = {1, 2, 3, 4}
    /\ rotateEnabled = TRUE
    /\ scaleEnabled = TRUE
    /\ placementElem = "ok"
    /\ positionateEnabled = TRUE
    /\ hostDistance \in GPSHostDistances
    /\ calc = NoCalc
    /\ InitCommon

NextGPS ==
    \/ InitSceneGPS
    \/ \E e \in ElemIds, ok \in BOOLEAN : LoadComplete(e, ok)
    \/ \E fix \in UserFixes : GPSLocationUpdate(fix)
    \/ LocationError
    \/ \E cam \in CameraPositions : GPSFrame(cam)

SpecGPS == InitGPS /\ [][NextGPS]_vars

\* GPS-only mode with a page that changes the host's distance attribute
NextHost ==
    \/ NextGPS
    \/ \E d \in GPSHostDistances : SetHostDistance(d)

SpecHost == InitGPS /\ [][NextHost]_vars

InitPlacement ==
    /\ mode \in {"floor", "wall"}
    /\ rotateEnabled = TRUE
    /\ scaleEnabled = TRUE
    /\ positionateEnabled \in BOOLEAN
    /\ hostDistance = AttrAbsent
    /\ placementElem \in {"none", "nosrc", "ok"}
    /\ children = IF placementElem = "none" THEN {} ELSE {1}
    /\ calc = NoCalc
    /\ InitCommon

NextPlacement ==
    \/ InitScenePlacement
    \/ \E ok \in BOOLEAN : PlacementModelSettled(ok)
    \/ \E ok \in BOOLEAN : HitTestSourceSettled(ok)
    \/ StartPresenting
    \/ \E hit \in HitResults : PlacementFrame(hit)
    \/ \E hit \in HitResults : Select(hit)

SpecPlacement == InitPlacement /\ [][NextPlacement]_vars

\* the element in any mode over a document of one object, with the page
\* rewriting the mode attribute
InitModes ==
    /\ children = {1}
    /\ rotateEnabled = TRUE
    /\ scaleEnabled = TRUE
    /\ placementElem = "ok"
    /\ positionateEnabled = TRUE
    /\ hostDistance \in HostDistances
    /\ calc = NoCalc
    /\ InitCommon

NextModes ==
    \/ NextAnchors
    \/ NextPlacement
    \/ NextGPS
    \/ ViewerButton
    \/ \E e \in ElemIds, ok \in BOOLEAN : ViewerLoadSettled(e, ok)
    \/ InitSceneOther
    \/ \E attr \in ModeAttrs : SetModeAttribute(attr)

SpecModes == InitModes /\ [][NextModes]_vars

\* surface placement with the touch gestures on the overlay
InitTouch ==
    /\ mode \in {"floor", "wall"}
    /\ rotateEnabled \in BOOLEAN
    /\ scaleEnabled \in BOOLEAN
    /\ positionateEnabled = TRUE
    /\ hostDistance = AttrAbsent
    /\ placementElem = "ok"
    /\ children = {1}
    /\ calc = NoCalc
    /\ InitCommon

NextTouch ==
    \/ InitScenePlacement
    \/ \E ok \in BOOLEAN : PlacementModelSettled(ok)
    \/ \E ok \in BOOLEAN : HitTestSourceSettled(ok)
    \/ StartPresenting
    \/ \E hit \in TapResults : Select(hit)
    \/ \E n \in 1..MaxFingers : \E in \in TouchInputs(n) : TouchStart(n, in)
    \/ \E in \in TouchInputs(fingers) : TouchMove(in)
    \/ \E n \in 0..MaxFingers : TouchEnd(n)

SpecTouch == InitTouch /\ [][NextTouch]_vars

\* GeolocationManager's static functions on every pair of points
InitGeo ==
    /\ mode = "gps"
    /\ children = {}
    /\ rotateEnabled = TRUE
    /\ scaleEnabled = TRUE
    /\ placementElem = "none"
    /\ positionateEnabled = TRUE
    /\ hostDistance = AttrAbsent
    /\ calc \in {[NoCalc EXCEPT !.a = a, !.b = b] : a \in GeoPoints, b \in GeoPoints}
    /\ InitCommon

NextGeo == Measure

SpecGeo == InitGeo /\ [][NextGeo]_vars

\* viewer mode over documents of one to three models, with or without a child
\* that has no src
ViewerDocuments == {{1}, {1, 2}, {0, 1, 2}, {1, 2, 4}, {0, 1, 2, 4}}

InitViewer ==
    /\ mode = "viewer"
    /\ children \in ViewerDocuments
    /\ rotateEnabled = TRUE
    /\ scaleEnabled = TRUE
    /\ placementElem = "ok"
    /\ positionateEnabled = TRUE
    /\ hostDistance = AttrAbsent
    /\ calc = NoCalc
    /\ InitCommon

NextViewer ==
    \/ \E e \in ElemIds, ok \in BOOLEAN : ViewerLoadSettled(e, ok)
    \/ \E i \in 1..Cardinality(ElemIds) : IconClick(i)
    \/ ViewerButton

SpecViewer == InitViewer /\ [][NextViewer]_vars

\* isVerticalSurface over the hit orientations
InitSurface ==
    /\ mode = "wall"
    /\ children = {1}
    /\ rotateEnabled = TRUE
    /\ scaleEnabled = TRUE
    /\ placementElem = "ok"
    /\ positionateEnabled = TRUE
    /\ hostDistance = AttrAbsent
    /\ calc \in {[NoCalc EXCEPT !.turn = d] : d \in SurfaceAngles}
    /\ InitCommon

NextSurface == Classify

SpecSurface == InitSurface /\ [][NextSurface]_vars

----------------------------------------------------------------------------
(* Claims *)

\* the tracked objects within their detection radius of the stored location
WithinRadius == {e \in Range(objects) : currentUser.known /\ InRange(e)}

\* C1: no second anchor creation request is issued for an object while its first
\* request is unresolved, so an object in range over several frames has at most
\* one creation request in flight.
C1_OneRequestInFlight == \A e \in ElemIds : pending[e] <= 1

\* C2: an ANCHORED object processed by a frame in which it is out of range gets one
\* release call and ends that frame UNANCHORED: anchor handle null, invisible, and
\* its anchor no longer held by the session.
C2_ReleasedIsUnanchored ==
    last.op = "frame" =>
        \A e \in last.released :
            /\ anchor[e] = NoAnchor
            /\ ~visible[e]
            /\ \A a \in live : a.obj # e

\* C3: there is at most one live anchor per object in every state, and when a
\* frame has completed the live anchors are at most as many as the objects within
\* their detection radius.
C3_LiveAnchorsBounded ==
    /\ \A a, b \in live : a.obj = b.obj => a = b
    /\ (last.op = "frame" /\ ~last.threw)
           => Cardinality(live) <= Cardinality(WithinRadius)

\* C4: every tracked object is visible if and only if it holds a non-null anchor
\* handle.
C4_VisibleIffAnchored ==
    \A e \in Range(objects) : visible[e] <=> anchor[e] # NoAnchor

\* C5: a frame that processes an ANCHORED in-range object and gets no pose for its
\* anchor leaves the object's position, orientation, visibility (true) and anchor
\* handle unchanged.
C5_NoPoseKeepsAll ==
    [][\A e \in ElemIds :
          (last'.op = "frame" /\ e \in last'.kept) =>
              /\ position'[e] = position[e]
              /\ quaternion'[e] = quaternion[e]
              /\ visible[e] /\ visible'[e]
              /\ anchor'[e] = anchor[e]]_vars

\* C5 amended: such a frame leaves position, visibility (true) and anchor handle
\* unchanged; the orientation is unchanged for an object without lookatuser, and
\* for an object with lookatuser it is the lookAt of the camera from the unchanged
\* position.
C5_NoPoseKeepsPose ==
    [][\A e \in ElemIds :
          (last'.op = "frame" /\ e \in last'.kept) =>
              /\ position'[e] = position[e]
              /\ visible[e] /\ visible'[e]
              /\ anchor'[e] = anchor[e] /\ anchor[e] # NoAnchor
              /\ IF Elements[e].lookatuser
                 THEN /\ quaternion'[e].kind = "lookAt"
                      /\ quaternion'[e].from = position[e]
                 ELSE quaternion'[e] = quaternion[e]]_vars

\* a frame got no pose for an anchored object that an earlier frame had posed
C5_Witness ==
    /\ last.op = "frame"
    /\ \E e \in last.kept : position[e] # Origin /\ visible[e]
    /\ \E e \in last.kept : ~Elements[e].lookatuser /\ quaternion[e] # Identity

\* a select that has a hit-test result with a pose while the object is loaded
Confirmed == last.op = "select" /\ last.hit.found /\ last.hit.pose.ok /\ last.before.loaded

\* C6: with repositioning allowed, every confirm that has a hit-test result with a
\* pose and a loaded object sets the object's position to the hit's position, the
\* first confirm and every later one.
C6_ConfirmMovesObject ==
    (Confirmed /\ positionateEnabled) =>
        /\ placed.position = last.hit.pose.position
        /\ placed.visible

\* a later confirm moved an already placed object
C6_Witness ==
    /\ Confirmed /\ positionateEnabled
    /\ last.before.isPlaced
    /\ placed.position # last.before.position

\* C7: with repositioning disabled, a confirm after the first successful one leaves
\* the object's position and orientation as the first placement set them, in floor
\* and in wall mode.
C7_LockedPoseUnchanged ==
    (Confirmed /\ ~positionateEnabled /\ last.before.isPlaced) =>
        /\ placed.position = last.before.position
        /\ placed.quaternion = last.before.quaternion

\* C8: no call of the per-frame callback raises an exception.
C8_NoFrameRaises == loopState # "stopped"

\* C9: a frame in which a release call is made completes without raising, has
\* processed every object of the set, and leaves each released object UNANCHORED
\* and invisible, also when the release call fails.
C9_ReleaseFailureNotFatal ==
    (last.op = "frame" /\ last.released # {}) =>
        /\ ~last.threw
        /\ last.processed = Range(objects)
        /\ \A e \in last.released : anchor[e] = NoAnchor /\ ~visible[e]

\* C10: while no location fix has been delivered, every tracked object is
\* UNANCHORED and invisible, no anchor creation has been requested and no frame
\* has raised.
C10_NoFixNoAnchors ==
    ~currentUser.known =>
        /\ \A e \in ElemIds : anchor[e] = NoAnchor /\ ~visible[e] /\ pending[e] = 0
        /\ live = {}
        /\ last.transforms = {}
        /\ loopState # "stopped"

\* a frame with an XRFrame ran over both loaded objects before any fix
C10_Witness ==
    /\ ~currentUser.known
    /\ last.op = "frame"
    /\ Len(objects) = 2

\* C11: a location error callback leaves the stored user location, every object's
\* anchor handle, pose and visibility as they were and keeps the subscription, so
\* that every later fix is still accepted and stored
C11_LocationErrorKeepsAll ==
    /\ [][last'.op = "locationError" =>
            /\ currentUser' = currentUser
            /\ anchor' = anchor
            /\ visible' = visible
            /\ position' = position
            /\ quaternion' = quaternion
            /\ watching']_vars
    /\ [](last.op = "locationError" => \A fix \in UserFixes : ENABLED LocationUpdate(fix))
    /\ [][\A fix \in UserFixes : LocationUpdate(fix) => currentUser' = fix]_vars

\* a location error arrives while the location is known and an object is anchored
C11_Witness ==
    /\ last.op = "locationError"
    /\ session = "active"
    /\ currentUser.known
    /\ \E e \in Range(objects) : anchor[e] # NoAnchor /\ visible[e]

\* the radius the resolution order gives element e: its own distance when it has
\* one, otherwise the host's when it has one, otherwise the global constant
ClaimedRadius(e) ==
    IF Elements[e].distance.t = "num" THEN Elements[e].distance.n
    ELSE IF hostDistance.t = "num" THEN hostDistance.n
    ELSE DETECTION_RADIUS

\* C12: after a location update of GPS-only mode every object is visible exactly
\* if its distance from the fix is below the radius resolved in the order own
\* override, host value, global constant 10 (host values that are no numbers aside)
C12_RadiusResolution ==
    last.op = "location" /\ hostDistance.t # "text" =>
        \A e \in Range(objects) :
            visible[e] <=> Distances[e, last.fix] < ClaimedRadius(e) * 100

\* C13: with the user at (0, 0) and the object at (0, 0.0001), 11.1 m east, the
\* object is out of range of radius 10 and in range of radius 15, and a frame at
\* that fix with the host radius 15 finds the object requested at the offset east
\* 11.1 m, north 0 (or requested or anchored by an earlier frame), once its model
\* is not loading or failed
C13_ScenarioAtOrigin ==
    /\ ~(Distances[3, Fix(0, 0)] < DETECTION_RADIUS * 100)
    /\ Distances[3, Fix(0, 0)] < 15 * 100
    /\ (/\ last.op = "frame" /\ ~last.threw
        /\ currentUser = Fix(0, 0) /\ hostDistance = AttrNum(15)
        /\ 3 \in children /\ load[3] \notin {"idle", "loading", "failed"})
       => \/ \E r \in last.transforms :
                r.obj = 3 /\ r.at.x \in 1110..1115 /\ r.at.z = 0
          \/ pending[3] > 0
          \/ anchor[3] # NoAnchor

\* C14: once the scene is set up, every child with a latitude, a longitude and a
\* model source has its model requested, whatever its coordinates, and is in the
\* set exactly once when the load has succeeded
C14_EveryObjectTracked ==
    session # "none" =>
        \A e \in children :
            Elements[e].src =>
                /\ load[e] \in {"loading", "loaded", "failed"}
                /\ load[e] = "loaded" =>
                       Cardinality({i \in DOMAIN objects : objects[i] = e}) = 1

\* C15: after the session has ended the location subscription is cancelled and no
\* object holds an anchor handle
C15_SessionEndCleansUp ==
    session = "ended" => ~watching /\ \A e \in ElemIds : anchor[e] = NoAnchor

\* the controllers initScene installs for a mode
Controllers(m) ==
    IF m \in {"floor", "wall"} THEN {"placement"}
    ELSE IF m \in {"gps", "anchors"} THEN {m}
    ELSE {}

\* C16: the controllers installed are always among those of the mode the
\* constructor read, so at most one of placement, anchors and gps is ever
\* installed, and this.mode never changes, whatever the mode attribute is set to
C16_OneControllerForLife ==
    /\ [](installed \subseteq Controllers(mode) /\ Cardinality(installed) <= 1)
    /\ [][mode' = mode]_vars

\* a controller is installed and working while the attribute names another mode
C16_Witness ==
    /\ installed # {}
    /\ Controllers(ModeOf(modeAttr)) # {}
    /\ Controllers(ModeOf(modeAttr)) # installed
    /\ session = "active"
    /\ loopState = "running"

C18_ZeroAtSamePoint == calc.done => calc.aa = 0 /\ calc.offset = [x |-> 0, z |-> 0]

\* both have been computed for a point away from the origin
C18_Witness == calc.done /\ calc.a.lat # 0 /\ calc.a.lon # 0

\* the listeners hold samples and two touches are down
Sampled == fingers = 2 /\ controls.on /\ controls.ref

\* C19: a touchstart with two touches samples the scale and the distance; a move
\* of two touches with samples held sets the scale to the sampled scale times
\* current distance over sampled distance when scaling is enabled, so twice the
\* distance gives twice the sampled scale; with scaling disabled no move changes
\* the scale
C19_ScaleFollowsDistance ==
    /\ [][last'.op = "touchstart" /\ fingers' = 2 /\ controls'.on =>
            /\ controls'.ref
            /\ controls'.scale = scale
            /\ controls'.distance = last'.distance]_vars
    /\ [][last'.op = "touchmove" /\ Sampled /\ scaleEnabled =>
            /\ scale' * controls.distance = controls.scale * last'.distance
            /\ last'.distance = 2 * controls.distance => scale' = 2 * controls.scale]_vars
    /\ [][last'.op = "touchmove" /\ ~scaleEnabled => scale' = scale]_vars

\* a move at twice the sampled distance has doubled the scale of a placed object
C19_Witness ==
    /\ last.op = "touchmove"
    /\ Sampled /\ scaleEnabled /\ placed.visible
    /\ last.distance = 2 * controls.distance
    /\ scale = 2 * controls.scale

\* C20 as stated: a move of two touches with samples held sets the rotation about
\* the vertical axis to the sampled rotation plus the change of the angle
C20_AngleAdded ==
    [][last'.op = "touchmove" /\ Sampled /\ rotateEnabled =>
            rotationY' = controls.rotation + (last'.angle - controls.angle)]_vars

\* C20, amended: a touchstart with two touches samples the rotation and the angle; a
\* move of two touches with samples held sets the rotation about the vertical
\* axis to the sampled rotation minus the change of the angle when rotation is
\* enabled; with rotation disabled no move changes the rotation
C20_AngleSubtracted ==
    /\ [][last'.op = "touchstart" /\ fingers' = 2 /\ controls'.on =>
            /\ controls'.ref
            /\ controls'.rotation = rotationY
            /\ controls'.angle = last'.angle]_vars
    /\ [][last'.op = "touchmove" /\ Sampled /\ rotateEnabled =>
            rotationY' = controls.rotation - (last'.angle - controls.angle)]_vars
    /\ [][last'.op = "touchmove" /\ ~rotateEnabled => rotationY' = rotationY]_vars

\* a move a quarter turn from the sampled angle has turned a placed object
C20_Witness ==
    /\ last.op = "touchmove"
    /\ Sampled /\ rotateEnabled /\ placed.visible
    /\ last.angle - controls.angle = 90
    /\ rotationY = controls.rotation - 90

\* C21: a touchend that leaves fewer than two touches clears the reference; while
\* there is no reference no move changes the scale or the rotation; only a
\* touchstart with two touches sets a reference, and it samples the distance, the
\* angle, the scale and the rotation as they are then; the move that follows it
\* at the same distance and angle changes neither scale nor rotation
C21_GestureStartsFresh ==
    /\ [][last'.op = "touchend" /\ fingers' < 2 => ~controls'.ref]_vars
    /\ [][last'.op = "touchmove" /\ ~controls.ref =>
            scale' = scale /\ rotationY' = rotationY]_vars
    /\ [][~controls.ref /\ controls'.ref =>
            /\ last'.op = "touchstart" /\ fingers' = 2
            /\ controls'.distance = last'.distance /\ controls'.angle = last'.angle
            /\ controls'.scale = scale /\ controls'.rotation = rotationY]_vars
    /\ [][(/\ last.op = "touchstart" /\ Sampled /\ last'.op = "touchmove"
           /\ last'.distance = controls.distance /\ last'.angle = controls.angle)
           => scale' = scale /\ rotationY' = rotationY]_vars

\* after an earlier gesture has changed the scale and the rotation and the touches
\* dropped below two, a new touchstart with two touches has sampled the changed
\* values
C21_Witness ==
    /\ last.op = "touchstart"
    /\ Sampled /\ scaleEnabled /\ rotateEnabled
    /\ controls.scale = scale /\ scale # MODEL_SCALE
    /\ controls.rotation = rotationY /\ rotationY # 0

\* C22: a rejected creation request leaves the object's anchor handle and its
\* visibility as they were (null and invisible for an UNANCHORED object), and a
\* frame that finds a fix and the object within its radius, without an anchor and
\* with no request outstanding (every earlier one was rejected), issues a
\* creation request for it
C22_RejectedThenRetried ==
    /\ [][\A e \in ElemIds : SettleCreate(e, FALSE) =>
            anchor' = anchor /\ visible' = visible]_vars
    /\ [][\A e \in Range(objects) :
            (/\ last'.op = "frame" /\ currentUser.known /\ InRange(e)
             /\ anchor[e] = NoAnchor /\ pending[e] = 0)
            => pending'[e] = 1 /\ anchor'[e] = NoAnchor /\ ~visible'[e]]_vars

\* the object is tracked, the user's location is known and within its radius
Near(e) == e \in Range(objects) /\ currentUser.known /\ InRange(e)

\* C23: under fair delivery of frames and creation requests that succeed at some
\* time, an object that from some time on stays within its radius of a known
\* user location is ANCHORED and visible again and again
C23_EventuallyAnchored ==
    \A e \in {1} : <>[]Near(e) => []<>(anchor[e] # NoAnchor /\ visible[e])

\* C24: an object that the most recent frame found at or beyond its radius does
\* not become visible and does not get an anchor handle, whatever happens next
\* (the settling of a creation request issued earlier included)
C24_NotShownOutOfRange ==
    [][\A e \in Range(objects) :
        (last.op = "frame" /\ e \in last.processed /\ ~InRange(e))
        => /\ visible'[e] => visible[e]
           /\ anchor'[e] # NoAnchor => anchor[e] # NoAnchor]_vars

\* C25: the anchor handle of an object that has one is never replaced by another
\* handle: it stays the same until it is set to null
C25_HandleNotReplaced ==
    [][\A e \in ElemIds :
        anchor[e] # NoAnchor /\ anchor'[e] # NoAnchor => anchor'[e] = anchor[e]]_vars

\* C26: a location update changes no object's position, orientation, visibility
\* or anchor handle, and whenever an object's position changes it is a frame
\* that writes it, for an object with an anchor within its radius, and the value
\* is the position of a pose the tracking session returned
C26_GPSNeverRehomes ==
    /\ [][last'.op = "location" =>
            /\ position' = position /\ quaternion' = quaternion
            /\ visible' = visible /\ anchor' = anchor]_vars
    /\ [][\A e \in ElemIds :
            position'[e] # position[e] =>
                /\ last'.op = "frame" /\ e \in last'.processed
                /\ anchor[e] # NoAnchor /\ InRange(e)
                /\ \E p \in Poses : position'[e] = p.position]_vars

\* after a location update there is an ANCHORED object whose position, written
\* from a pose, is not its offset from the new fix
C26_Witness ==
    /\ last.op = "location"
    /\ \E e \in Range(objects) :
        /\ anchor[e] # NoAnchor /\ visible[e]
        /\ \E p \in Poses : position[e] = p.position
        /\ position[e] # TransformFrom(e, currentUser)

\* the altitude configured for element e in centimetres, the default when it has
\* no altitude attribute
ClaimedAltitude(e) ==
    IF Elements[e].altitude.t = "num" THEN Elements[e].altitude.n ELSE MODEL_HEIGHT

\* the local offset of element e from the user at fix, in centimetres: east grows
\* with the longitude, north with the latitude
ClaimedOffset(e, fix) ==
    [east |-> Quot((Elements[e].lon - fix.lon) * UnitCmTimes100, 100),
     north |-> Quot((Elements[e].lat - fix.lat) * UnitCmTimes100, 100)]

\* C27: every creation request of a frame is made at (east, altitude, -north) of
\* the object's offset from the user location of that frame, with the object's
\* configured altitude, 1.5 m only when none is configured
C27_RequestAtOffset ==
    last.op = "frame" =>
        \A r \in last.transforms :
            r.at = Vec3(ClaimedOffset(r.obj, currentUser).east,
                        ClaimedAltitude(r.obj),
                        -ClaimedOffset(r.obj, currentUser).north)

\* C28: when a frame ends, the objects it has turned to the camera are exactly
\* the tracked objects with lookatuser that are visible, and each was turned from
\* the position it has at the end of the frame
C28_VisibleFacesUser ==
    last.op = "frame" =>
        \A e \in Range(objects) :
            /\ (Elements[e].lookatuser /\ visible[e]) <=> e \in last.faced
            /\ e \in last.faced =>
                   quaternion[e].kind = "lookAt" /\ quaternion[e].from = position[e]

\* C29: in GPS-only mode, once a fix has been delivered, every loaded object is
\* visible exactly if it is within its radius of the latest fix, and a visible
\* object is at (east, altitude, -north) of its offset from that fix
C29_VisibleIffWithinRadius ==
    last.fix.known =>
        \A e \in Range(objects) :
            /\ visible[e] <=> InRangeOf(e, last.fix)
            /\ visible[e] => position[e] = TransformFrom(e, last.fix)

\* the radius of element e resolved with the host's distance attribute as it was
\* when the element was set up
RadiusAtSetup(e) ==
    IF TruthyNumber(ParsedDistance(e)) THEN ParsedDistance(e)
    ELSE IF TruthyAttr(setupDistance) THEN setupDistance
    ELSE Num(DETECTION_RADIUS)

\* C30: the radius a location update uses for an object is the one resolved with
\* the host's distance attribute of setup time, whatever the attribute is now
C30_RadiusFixedAtSetup ==
    last.op = "location" =>
        \A e \in Range(objects) :
            visible[e] <=> LessThan(Distances[e, last.fix], RadiusAtSetup(e))

\* C31: an object whose model failed to load is not in the tracked set, is
\* invisible, has no anchor and no creation request, and the failure of its load
\* changes nothing of the other objects' loads, anchors and visibility
C31_FailedLoadExcluded ==
    /\ [](\A e \in ElemIds :
            load[e] = "failed" =>
                /\ e \notin Range(objects)
                /\ ~visible[e] /\ anchor[e] = NoAnchor /\ pending[e] = 0
                /\ e \notin {a.obj : a \in live})
    /\ [][\A e \in ElemIds :
            load[e] = "loading" /\ load'[e] = "failed" =>
                /\ objects' = objects /\ anchor' = anchor /\ visible' = visible
                /\ pending' = pending /\ live' = live
                /\ \A o \in ElemIds \ {e} : load'[o] = load[o]]_vars

\* a frame has just run with a fix in range of the object whose load failed and
\* of another object, which is ANCHORED and visible
C31_Witness ==
    /\ last.op = "frame" /\ currentUser.known
    /\ \E e \in ElemIds, o \in Range(objects) :
        /\ load[e] = "failed" /\ InRange(e)
        /\ o # e /\ InRange(o) /\ anchor[o] # NoAnchor /\ visible[o]

\* C32: without the object element, or without its src, surface placement never
\* starts a model load, never requests a hit-test source, installs no animation
\* loop and no select listener, and never has an object, placed or visible
C32_MisconfiguredAborts ==
    placementElem # "ok" =>
        /\ modelLoad = "idle"
        /\ hitTestSource = "undefined"
        /\ loopState = "none"
        /\ ~selectInstalled
        /\ "placement" \notin installed
        /\ placed = NoObject

\* the session of a misconfigured element has started and is presenting
C32_Witness ==
    /\ placementElem # "ok"
    /\ mode \in {"floor", "wall"}
    /\ session = "active" /\ presenting

\* C33: a select that finds no hit-test source, no hit-test result, a result
\* without a pose, or no loaded object changes neither the object (position,
\* orientation, visibility, placed flag) nor the status text, and raises nothing
C33_IdleConfirmChangesNothing ==
    [][(/\ last'.op = "select"
        /\ \/ hitTestSource # "set"
           \/ ~last'.hit.found
           \/ ~last'.hit.pose.ok
           \/ ~placed.loaded)
       => /\ placed' = placed
          /\ overlayText' = overlayText
          /\ loopState' = loopState /\ ~last'.threw]_vars

\* a select on a result without a pose, after the object has been placed, has
\* left the object as it was
C33_Witness ==
    /\ last.op = "select"
    /\ last.hit.found /\ ~last.hit.pose.ok
    /\ placed.visible /\ placed = last.before

\* C34: in wall mode a select on a hit-test result that isVerticalSurface does
\* not classify as vertical leaves the object as it was: not placed, not moved,
\* not shown
C34_WallNeedsVerticalHit ==
    (/\ mode = "wall" /\ last.op = "select"
     /\ last.hit.found /\ last.hit.pose.ok
     /\ ~isVerticalSurface(last.hit.pose.orientation))
    => placed = last.before

\* C35: a visible object is placed and the status text is empty, and a visible
\* object stays visible and placed: after the select that showed it no frame,
\* whatever its hit-test result, and no other step brings the text back or hides
\* the object
C35_PlacedIsAbsorbing ==
    /\ [](placed.visible => placed.isPlaced /\ overlayText = "")
    /\ [][placed.visible => placed'.visible /\ placed'.isPlaced]_vars

\* a frame without a hit-test result has run after the object was placed
C35_Witness ==
    /\ last.op = "frame" /\ ~last.threw
    /\ hitTestSource = "set" /\ ~last.hit.found
    /\ last.before.visible /\ placed.visible /\ overlayText = ""

\* the status a frame with the hit-test result hit is to publish
ClaimedStatus(hit) ==
    IF ~hit.found THEN SearchText
    ELSE IF mode = "wall" /\ hit.pose.ok /\ isVerticalSurface(hit.pose.orientation)
    THEN WallText
    ELSE SurfaceText

\* C36: after a frame that found the object loaded and not yet shown, the status
\* text is the one of that frame's hit-test result: the search text without a
\* result, the wall text for a vertical result in wall mode, the surface text
\* for every other result
C36_StatusFollowsHit ==
    (/\ last.op = "frame" /\ hitTestSource = "set"
     /\ last.before.loaded /\ ~last.before.visible)
    => overlayText = ClaimedStatus(last.hit)

\* the angle, in degrees, between the normal (0, -sin d, cos d) and the
\* horizontal plane, and between the normal's line and the vertical axis
DeviationFromHorizontal(d) ==
    LET a == Abs(((d + 180) % 360) - 180)
    IN  IF a > 90 THEN 180 - a ELSE a
DeviationFromVertical(d) == 90 - DeviationFromHorizontal(d)

\* C37 as stated: a hit is classified as vertical exactly when its normal
\* deviates from the vertical by less than 45 degrees
C37_NormalNearVertical ==
    calc.done => (calc.vertical <=> DeviationFromVertical(calc.turn) < 45)

\* C37: a hit is classified as vertical exactly when its normal deviates from
\* the horizontal by less than 45 degrees, that is, when its angle to the
\* vertical differs from 90 degrees by less than 45
C37_NormalNearHorizontal ==
    calc.done => (calc.vertical <=> DeviationFromHorizontal(calc.turn) < 45)

\* the orientation whose normal is exactly 45 degrees off the horizontal has
\* been classified, as not vertical
C37_Witness == calc.done /\ calc.turn = 45 /\ ~calc.vertical

\* the entries of viewerObjects whose visible flag is set, and the children whose
\* model is visible
FlaggedEntries == {j \in 1..Len(viewerObjects) : viewerObjects[j].visible}
VisibleModels == {e \in ElemIds : modelVisible[e]}

\* C38: once the models of a viewer with several models have all loaded, and
\* after every click on a carousel icon, exactly one model is visible, exactly
\* one entry is flagged visible, it is the entry of that model, and
\* currentObjectIndex is its index
C38_OneViewerModelVisible ==
    (viewerSettled = "resolved" /\ Len(viewerObjects) > 1) =>
        /\ FlaggedEntries = {currentObjectIndex + 1}
        /\ VisibleModels = {viewerObjects[currentObjectIndex + 1].elem}

\* in a document whose first child has no src, the icon of the last of three
\* models has been clicked
C38_Witness ==
    /\ last.op = "click"
    /\ 0 \in children
    /\ Len(viewerObjects) = 3
    /\ currentObjectIndex = 2

====
